---------------------------- MODULE Spec2Model ----------------------------
(***************************************************************************)
(* Glint: parser (src/src/parser/parser.rs), syntax tree (src/src/ast.rs)  *)
(* and evaluator (src/src/interpreter/interpreter.rs).                     *)
(*                                                                         *)
(* A syntax-tree node and its serde_json document {"Tag": payload} are one *)
(* record [tag |-> "Tag", ...fields].  A serde_json::Value met at run time *)
(* is Null, Number(n), String(s) or such a node (Value::Object).           *)
(* Integers are i64 in the evaluator; the model's literals are small, so   *)
(* no operation of the model leaves the i64 range.                         *)
(***************************************************************************)
EXTENDS Integers, Sequences, FiniteSets, TLC

VARIABLES
    src,          \* source text of the run: a sequence of lines, each a token sequence
    ast,          \* the Program parse_program returned, a sequence of statement nodes
    program,      \* Interpreter.program: the statements of the loaded document
    pc,           \* "parse" | "load" | "start" | "run" | "done" | "panicked" | "parse_error"
    i,            \* index of the next top-level statement of interpret's loop
    functions,    \* Interpreter.functions: name -> [name, args, body]
    variables,    \* Interpreter.variables: name -> Value
    cache,        \* Interpreter.cache: key -> Value
    stdout,       \* lines written to standard output, in order
    call_result,  \* value returned by the last process_function_call of interpret
    ref,          \* the same run with nothing ever stored in the cache
    error         \* the ParseError parse_program returned, Null when it returned Ok

vars == <<src, ast, program, pc, i, functions, variables, cache, stdout, call_result, ref,
          error>>

-----------------------------------------------------------------------------
(* Bounds of the model.                                                    *)

MaxLit == 3        \* integer literals of a source line are 2..MaxLit
MaxInt == 5        \* n and k of `x is n`, `write x + k` are 0..MaxInt
MaxProgLen == 3    \* statements of a program drawn from StatementPool
MaxSrcLen == 7     \* tokens of the expression of a source line
MaxPrimeLen == 3   \* tokens of the expression written before it
MaxItems == 2      \* items of a write statement drawn from WriteItemPool
MaxChain == 3      \* operands of an operator chain

-----------------------------------------------------------------------------
(* serde_json::Value                                                       *)

NullV == [tag |-> "Null"]
Num(n) == [tag |-> "Number", n |-> n]
StrV(s) == [tag |-> "Str", s |-> s]

(* Syntax-tree nodes (ast.rs), as the parser builds them.                  *)
IntLit(n) == [tag |-> "Integer", val |-> n]
FloatLit(t) == [tag |-> "Float", val |-> t]
BoolLit(b) == [tag |-> "Bool", val |-> b]
StrLit(s) == [tag |-> "String", val |-> s]
Ident(x) == [tag |-> "Identifier", val |-> x]
Bin(l, o, r) == [tag |-> "BinaryOp", left |-> l, op |-> o, right |-> r]
Arr(es) == [tag |-> "Array", items |-> es]
Dict(ps) == [tag |-> "Dictionary", pairs |-> ps]
Write(es) == [tag |-> "Write", items |-> es]
Assign(x, v) == [tag |-> "VariableAssign", name |-> x, value |-> v]
Block(ss) == [tag |-> "Block", stmts |-> ss]
Func(f, as, ss) == [tag |-> "Function", name |-> f, args |-> as, body |-> Block(ss)]
Call(f, as) == [tag |-> "FunctionCall", name |-> f, args |-> as]
Ret(e) == [tag |-> "Return", expr |-> e]
Coincide(e, cs, d) == [tag |-> "Coincide", expr |-> e, cases |-> cs, default |-> d]

(* if_else of parser.rs collects a then-block, the elif pairs and the      *)
(* optional else-block.                                                    *)
ParsedIf(c, t, el, e) ==
    [tag |-> "ParsedIf", condition |-> c, then_branch |-> t, elif_branches |-> el,
     else_branch |-> e]

(* AST::IfElse of ast.rs has the three fields condition, if_block and      *)
(* else_block; an absent else_block serialises as null.                    *)
IfElse(c, t, e) == [tag |-> "IfElse", condition |-> c, if_block |-> t, else_block |-> e]

-----------------------------------------------------------------------------
(* Value helpers                                                           *)

as_i64_ok(v) == v.tag = "Number"

(* i64 division truncates toward zero.                                     *)
TruncDiv(a, b) ==
    IF (a >= 0) = (b > 0) THEN (IF a >= 0 THEN a \div b ELSE (-a) \div (-b))
    ELSE (IF a >= 0 THEN -(a \div (-b)) ELSE -((-a) \div b))

(* Display of a Value (result.to_string()): JSON text.                     *)
ValueToString(v) ==
    CASE v.tag = "Number" -> ToString(v.n)
      [] v.tag = "Null" -> "null"
      [] v.tag = "Str" -> "\"" \o v.s \o "\""
      [] OTHER -> "{" \o v.tag \o "}"

(* First token of the Debug text of a Value, as format!("{:?}", value)     *)
(* prints it.                                                              *)
DebugHead(v) ==
    CASE v.tag = "Number" -> "Number("
      [] v.tag = "Null" -> "Null"
      [] v.tag = "Str" -> "String("
      [] OTHER -> "Object {"

-----------------------------------------------------------------------------
(* The interpreter state threaded through the evaluator's functions:       *)
(* [functions, variables, cache, stdout, panicked, memo].  panicked is set *)
(* by an unwrap() on None or a panic!(); memo is TRUE for the interpreter, *)
(* and FALSE in the reference run, whose cache stays empty so that every   *)
(* lookup misses and every operation is recomputed.                        *)

EmptyMap == [x \in {} |-> NullV]

Emit(s, kind, text) == [s EXCEPT !.stdout = Append(@, [kind |-> kind, text |-> text])]

Panic(s) == [s EXCEPT !.panicked = TRUE]

(* self.cache.insert(key, value)                                           *)
CacheInsert(s, key, v) ==
    IF s.memo
    THEN [s EXCEPT !.cache = [k \in DOMAIN s.cache \cup {key} |->
                                 IF k = key THEN v ELSE s.cache[k]]]
    ELSE s

(* HashMap::insert on a scope                                              *)
MapInsert(m, k, v) == [x \in DOMAIN m \cup {k} |-> IF x = k THEN v ELSE m[x]]

(* Cache keys.  A key is a formatted string in the source; the model keeps *)
(* its leading text and the data the rest of the string prints.            *)
WriteKey(write_obj) == <<"{", write_obj>>
AssignKey(var_assign) == <<"VariableAssign:{", var_assign>>
ReturnKey(return_obj, local_scope) == <<"Return:{", return_obj, local_scope>>
(* A key that leaves the operator out: operations on the same operands     *)
(* would then share one entry.                                             *)
OperandsOnlyKey(left, op, right) == <<DebugHead(left), left, right>>

(* A key that names the operands in the opposite order.                     *)
SwappedKey(left, op, right) == <<DebugHead(right), right, op, left>>

BinaryOpKey(left, op, right) == <<DebugHead(left), left, op, right>>

extract_value(value) ==
    IF value.tag = "Integer" THEN Num(value.val)
    ELSE IF value.tag = "String" THEN StrV(value.val)
    ELSE value

ApplyOp(op, l, r) ==
    CASE op = "+" -> l + r
      [] op = "-" -> l - r
      [] op = "*" -> l * r
      [] op = "/" -> TruncDiv(l, r)

(* Bind(v, K) is K(v): the value of a call is computed once and named.    *)
Bind(v, K(_)) == K(v)

RECURSIVE evaluate_binary_op(_, _, _)
RECURSIVE resolve_value(_, _, _)

resolve_value(value, local_scope, s) ==
    CASE value.tag = "Identifier" ->
            IF value.val \in DOMAIN local_scope
            THEN [val |-> extract_value(local_scope[value.val]), s |-> s]
            ELSE IF value.val \in DOMAIN s.variables
            THEN [val |-> extract_value(s.variables[value.val]), s |-> s]
            ELSE [val |-> NullV, s |-> Emit(s, "diag", "Identifier not found")]
      [] value.tag = "Integer" -> [val |-> Num(value.val), s |-> s]
      [] value.tag = "BinaryOp" -> evaluate_binary_op(value, local_scope, s)
      [] OTHER -> [val |-> NullV, s |-> Emit(s, "diag", "Unexpected value type")]

(* The result of a cache miss: the diagnostic (if any), the insertion and  *)
(* the closing trace line.                                                 *)
BinaryOpMiss(s1, cache_key, diag, result) ==
    [val |-> result,
     s |-> Emit(CacheInsert(IF diag = "" THEN s1 ELSE Emit(s1, "diag", diag),
                            cache_key, result),
                "trace", "Caching completed")]

(* evaluate_binary_op once both operands are resolved; s1 is the state     *)
(* after the cache key was printed.                                        *)
BinaryOpOn(left, op, right, s1) ==
    LET cache_key == BinaryOpKey(left, op, right)
    IN  IF cache_key \in DOMAIN s1.cache
        THEN [val |-> s1.cache[cache_key], s |-> s1]
        ELSE IF op \notin {"+", "-", "*", "/"}
        THEN BinaryOpMiss(s1, cache_key, "Unknown binary operator", NullV)
        ELSE IF ~(as_i64_ok(left) /\ as_i64_ok(right))
        THEN BinaryOpMiss(s1, cache_key, "BinaryOp error", NullV)
        ELSE IF op = "/" /\ right.n = 0
        THEN BinaryOpMiss(s1, cache_key, "Division by zero", NullV)
        ELSE BinaryOpMiss(s1, cache_key, "", Num(ApplyOp(op, left.n, right.n)))

evaluate_binary_op(binary_op, local_scope, s) ==
    Bind(resolve_value(binary_op.left, local_scope, s), LAMBDA l :
    Bind(resolve_value(binary_op.right, local_scope, l.s), LAMBDA r :
        BinaryOpOn(l.val, binary_op.op, r.val, Emit(r.s, "trace", "binop key"))))

(* The text process_write gives an Identifier item.                        *)
ShownValue(v) ==
    CASE v.tag = "Number" -> ToString(v.n)
      [] v.tag = "Str" -> v.s
      [] OTHER -> "Unsupported type"

IdentifierText(id_str, local_scope, s) ==
    IF id_str \in DOMAIN local_scope THEN ShownValue(extract_value(local_scope[id_str]))
    ELSE IF id_str \in DOMAIN s.variables THEN ShownValue(extract_value(s.variables[id_str]))
    ELSE "Identifier not found"

(* The branches of process_write on a cache miss.                          *)
WriteResult(write_obj, local_scope, s) ==
    CASE write_obj.tag = "BinaryOp" ->
            Bind(evaluate_binary_op(write_obj, local_scope, s), LAMBDA b :
                [res |-> ValueToString(b.val), s |-> b.s])
      [] write_obj.tag = "String" -> [res |-> write_obj.val, s |-> s]
      [] write_obj.tag = "Identifier" ->
            [res |-> IdentifierText(write_obj.val, local_scope, s), s |-> s]
      [] write_obj.tag = "Integer" -> [res |-> ToString(write_obj.val), s |-> s]
      [] OTHER -> [res |-> "Unknown data type in Write statement", s |-> s]

(* process_write without the lookup: the text is computed and stored anew  *)
(* on every call.                                                          *)
WriteUncached(write_obj, local_scope, s) ==
    Bind(WriteResult(write_obj, local_scope, s), LAMBDA r :
        [res |-> r.res, s |-> CacheInsert(r.s, WriteKey(write_obj), StrV(r.res))])

process_write(write_obj, local_scope, s) ==
    LET cache_key == WriteKey(write_obj)
    IN  IF cache_key \in DOMAIN s.cache
        THEN IF s.cache[cache_key].tag = "Str"
             THEN [res |-> s.cache[cache_key].s, s |-> s]
             ELSE [res |-> "", s |-> Panic(s)]
        ELSE Bind(WriteResult(write_obj, local_scope, s), LAMBDA r :
                 [res |-> r.res, s |-> CacheInsert(r.s, cache_key, StrV(r.res))])

(* The loop over the items of one Write: the pieces are pushed onto one    *)
(* output_line, which writeln! then prints.                                *)
(* A loop that ends every piece with a blank.                              *)
RECURSIVE WriteItemsSpaced(_, _, _, _)
WriteItemsSpaced(items, local_scope, line, s) ==
    IF items = <<>> \/ s.panicked THEN [res |-> line, s |-> s]
    ELSE Bind(process_write(Head(items), local_scope, s), LAMBDA w :
             WriteItemsSpaced(Tail(items), local_scope, line \o w.res \o " ", w.s))

RECURSIVE WriteItems(_, _, _, _)
WriteItems(items, local_scope, line, s) ==
    IF items = <<>> \/ s.panicked THEN [res |-> line, s |-> s]
    ELSE Bind(process_write(Head(items), local_scope, s), LAMBDA w :
             WriteItems(Tail(items), local_scope, line \o w.res, w.s))

WriteLine(write_array, local_scope, s) ==
    Bind(WriteItems(write_array, local_scope, "", s), LAMBDA w :
        IF w.s.panicked THEN w.s ELSE Emit(w.s, "write", w.res))

(* An assignment that binds nothing.                                       *)
AssignNothing(element, s) == s

process_variable_assign(element, s) ==
    IF element.tag # "VariableAssign" THEN s
    ELSE LET cache_key == AssignKey([name |-> element.name, value |-> element.value])
             s1 == Emit(s, "trace", "assign key")
         IN  IF cache_key \in DOMAIN s1.cache
             THEN [s1 EXCEPT !.variables = MapInsert(@, element.name, s1.cache[cache_key])]
             ELSE CacheInsert([s1 EXCEPT !.variables = MapInsert(@, element.name, element.value)],
                              cache_key, element.value)

(* as_i64().unwrap() on the value of a Return                              *)
UnwrapI64(v, s) ==
    IF as_i64_ok(v) THEN [val |-> v.n, s |-> s] ELSE [val |-> 0, s |-> Panic(s)]

(* The branches of process_return on a cache miss.                         *)
ReturnResult(return_obj, local_scope, s1) ==
    CASE return_obj.tag = "Identifier" ->
            IF return_obj.val \in DOMAIN local_scope
            THEN UnwrapI64(extract_value(local_scope[return_obj.val]), s1)
            ELSE [val |-> 0, s |-> Emit(s1, "diag", "Return identifier not found")]
      [] return_obj.tag = "BinaryOp" ->
            Bind(evaluate_binary_op(return_obj, local_scope, s1), LAMBDA b :
                UnwrapI64(b.val, b.s))
      [] OTHER -> [val |-> 0, s |-> Emit(s1, "diag", "Unknown return type")]

process_return(return_obj, local_scope, s) ==
    LET cache_key == ReturnKey(return_obj, local_scope)
        s1 == Emit(s, "trace", "return key")
    IN  IF cache_key \in DOMAIN s1.cache
        THEN UnwrapI64(s1.cache[cache_key], s1)
        ELSE Bind(ReturnResult(return_obj, local_scope, s1), LAMBDA r :
                 IF r.s.panicked THEN r
                 ELSE [val |-> r.val, s |-> CacheInsert(r.s, cache_key, Num(r.val))])

(* One statement of a function body: its Write, its assignment and its     *)
(* Return are each looked for, in this order.  rv is return_value, a       *)
(* sequence of length 0 (None) or 1 (Some).                                *)
BodyReturn(statement, current_scope, rv, s2) ==
    IF s2.panicked \/ statement.tag # "Return" THEN [rv |-> rv, s |-> s2]
    ELSE Bind(process_return(statement.expr, current_scope, s2), LAMBDA r :
             [rv |-> <<r.val>>, s |-> r.s])

BodyAssign(statement, s1) ==
    IF s1.panicked THEN s1 ELSE process_variable_assign(statement, s1)

BodyStatement(statement, current_scope, rv, s) ==
    BodyReturn(statement, current_scope, rv,
               BodyAssign(statement,
                          IF statement.tag = "Write"
                          THEN WriteLine(statement.items, current_scope, s)
                          ELSE s))

RECURSIVE BodyLoop(_, _, _, _)
BodyLoop(block, current_scope, rv, s) ==
    IF block = <<>> \/ s.panicked THEN [rv |-> rv, s |-> s]
    ELSE Bind(BodyStatement(Head(block), current_scope, rv, s), LAMBDA b :
             BodyLoop(Tail(block), current_scope, b.rv, b.s))

execute_function_body(body, local_scope, s) ==
    Bind(IF body.tag = "Block"
         THEN BodyLoop(body.stmts, local_scope, <<>>, Emit(s, "trace", "Cash key"))
         ELSE [rv |-> <<>>, s |-> Emit(s, "trace", "Cash key")],
         LAMBDA b : [val |-> IF b.rv = <<>> THEN 0 ELSE b.rv[1], s |-> b.s])

(* arg_map: the formal parameters zipped with the call's argument nodes.   *)
ArgMap(params, args) ==
    [x \in {params[k] : k \in 1..Len(params)} |->
        args[CHOOSE k \in 1..Len(params) :
                params[k] = x /\ \A j \in (k + 1)..Len(params) : params[j] # x]]

(* local_scope.extend(arg_map)                                             *)
Extend(scope, arg_map) ==
    [x \in DOMAIN scope \cup DOMAIN arg_map |->
        IF x \in DOMAIN arg_map THEN arg_map[x] ELSE scope[x]]

(* A call that runs the body whatever the number of arguments.             *)
CallAnyArity(func, args, s1) == execute_function_body(func.body, s1.variables, s1)

CallFunction(func, args, s1) ==
    IF Len(args) = Len(func.args)
    THEN execute_function_body(func.body, Extend(s1.variables, ArgMap(func.args, args)), s1)
    ELSE [val |-> 0, s |-> Emit(s1, "diag", "Function expects arguments")]

process_function_call(element, s) ==
    IF element.tag # "FunctionCall" THEN [val |-> 0, s |-> s]
    ELSE IF element.name \notin DOMAIN s.functions
    THEN [val |-> 0, s |-> Emit(Emit(s, "trace", "call key"), "diag", "Function not found")]
    ELSE CallFunction(s.functions[element.name], element.args, Emit(s, "trace", "call key"))

(* One statement of an if_block or else_block.                             *)
BlockCall(statement, s2) ==
    IF s2.panicked THEN s2 ELSE process_function_call(statement, s2).s

BlockStatement(statement, s) ==
    BlockCall(statement,
              BodyAssign(statement,
                         IF statement.tag = "Write"
                         THEN WriteLine(statement.items, EmptyMap, s)
                         ELSE s))

RECURSIVE BlockLoop(_, _)
BlockLoop(block, s) ==
    IF block = <<>> \/ s.panicked THEN s
    ELSE BlockLoop(Tail(block), BlockStatement(Head(block), s))

execute_block(block, s) ==
    IF block.tag = "Block" THEN BlockLoop(block.stmts, s) ELSE s

get_value_from_identifier_or_value(val, s) ==
    IF val.tag = "Identifier"
    THEN (IF val.val \in DOMAIN s.variables THEN s.variables[val.val] ELSE NullV)
    ELSE val

(* <<b>> for Some(b), <<>> for None.                                       *)
evaluate_if_else_condition(binary_op, s) ==
    IF binary_op.op = "="
    THEN <<get_value_from_identifier_or_value(binary_op.left, s)
             = get_value_from_identifier_or_value(binary_op.right, s)>>
    ELSE <<>>

process_if_else(element, s) ==
    IF element.tag # "IfElse" THEN s
    ELSE IF element.condition.tag # "BinaryOp" THEN s
    ELSE LET result == evaluate_if_else_condition(element.condition, s)
         IN  IF result = <<>> THEN s
             ELSE IF result[1]
             THEN execute_block(element.if_block, Emit(s, "trace", "True"))
             ELSE execute_block(element.else_block, Emit(s, "trace", "False"))

(* One iteration of the loop of interpret over self.program: the if/else,  *)
(* the function call, then the Write or else the assignment.               *)
ElementTail(element, c) ==
    [val |-> c.val,
     s |-> IF c.s.panicked THEN c.s
           ELSE IF element.tag = "Write" THEN WriteLine(element.items, EmptyMap, c.s)
           ELSE process_variable_assign(element, c.s)]

ElementCall(element, s1) ==
    IF s1.panicked THEN [val |-> 0, s |-> s1] ELSE process_function_call(element, s1)

InterpretElement(element, s) ==
    Bind(ElementCall(element, process_if_else(element, s)), LAMBDA c : ElementTail(element, c))

-----------------------------------------------------------------------------
(* main.rs: serde_json::to_string_pretty(&ast).  A node serialises as      *)
(* {"Tag": payload}; IfElse has the fields of ast.rs, so the then-block    *)
(* becomes if_block, the else-block else_block (null when absent), and the *)
(* elif pairs the parser collected have no field to go to.                 *)

RECURSIVE Encode(_)
EncodeSeq(stmts) == [k \in 1..Len(stmts) |-> Encode(stmts[k])]
Encode(node) ==
    CASE node.tag = "ParsedIf" ->
            IfElse(node.condition, Encode(node.then_branch), Encode(node.else_branch))
      [] node.tag = "Block" -> Block([k \in 1..Len(node.stmts) |-> Encode(node.stmts[k])])
      [] node.tag = "Function" ->
            [node EXCEPT !.body = Block([k \in 1..Len(node.body.stmts) |->
                                            Encode(node.body.stmts[k])])]
      [] node.tag = "Coincide" ->
            [node EXCEPT !.cases = [k \in 1..Len(node.cases) |->
                                       <<node.cases[k][1], Encode(node.cases[k][2])>>],
                         !.default = Encode(node.default)]
      [] OTHER -> node

(* The Function entry extract_functions_recursive builds from a Function   *)
(* node; arg["Identifier"].as_str().unwrap() panics on any other argument. *)
FunctionArgsOk(func_obj) ==
    \A k \in 1..Len(func_obj.args) : func_obj.args[k].tag = "Identifier"

FunctionOf(func_obj) ==
    [name |-> func_obj.name,
     args |-> [k \in 1..Len(func_obj.args) |-> func_obj.args[k].val],
     body |-> func_obj.body]

add_function(func, s) == [s EXCEPT !.functions = MapInsert(@, func.name, func)]

(* extract_functions_recursive: every element must be an object; the       *)
(* values of an object are visited in key order (serde_json's Map is       *)
(* sorted), arrays element by element and objects as one-element slices.   *)
(* The elements of a Dictionary's pairs and of a Coincide's cases are      *)
(* arrays, on which element.as_object().unwrap() panics.                   *)
RECURSIVE extract_functions_recursive(_, _)
RECURSIVE ExtractElement(_, _)

ExtractElement(element, s) ==
    LET s1 == IF element.tag # "Function" THEN s
              ELSE IF FunctionArgsOk(element) THEN add_function(FunctionOf(element), s)
              ELSE Panic(s)
        one(n, st) == IF st.panicked \/ n.tag = "Null" THEN st ELSE ExtractElement(n, st)
        many(ns, st) == IF st.panicked THEN st ELSE extract_functions_recursive(ns, st)
        pairs(ps, st) == IF st.panicked \/ ps = <<>> THEN st ELSE Panic(st)
    IN  IF s1.panicked THEN s1
        ELSE CASE element.tag \in {"Write", "Array"} -> many(element.items, s1)
               [] element.tag = "Block" -> many(element.stmts, s1)
               [] element.tag = "Dictionary" -> pairs(element.pairs, s1)
               [] element.tag = "Return" -> one(element.expr, s1)
               [] element.tag = "BinaryOp" -> one(element.right, one(element.left, s1))
               [] element.tag = "VariableAssign" -> one(element.value, s1)
               [] element.tag = "FunctionCall" -> many(element.args, s1)
               [] element.tag = "Function" -> one(element.body, many(element.args, s1))
               [] element.tag = "IfElse" ->
                     one(element.if_block, one(element.else_block, one(element.condition, s1)))
               [] element.tag = "Coincide" ->
                     one(element.expr, one(element.default, pairs(element.cases, s1)))
               [] OTHER -> s1

extract_functions_recursive(elements, s) ==
    IF elements = <<>> \/ s.panicked THEN s
    ELSE extract_functions_recursive(Tail(elements), ExtractElement(Head(elements), s))

NewInterpreter(memo) ==
    [functions |-> EmptyMap, variables |-> EmptyMap, cache |-> EmptyMap,
     stdout |-> <<>>, panicked |-> FALSE, memo |-> memo]

load_from_json(doc, s) ==
    LET s1 == extract_functions_recursive(doc, s)
    IN  IF s1.panicked THEN s1 ELSE Emit(s1, "trace", "Variables:")

-----------------------------------------------------------------------------
(* The state machine: interpret_from_json is load_from_json, then          *)
(* interpret, whose loop runs one top-level statement per step.            *)

Self == [functions |-> functions, variables |-> variables, cache |-> cache,
         stdout |-> stdout, panicked |-> FALSE, memo |-> TRUE]

Install(s) ==
    /\ functions' = s.functions
    /\ variables' = s.variables
    /\ cache' = s.cache
    /\ stdout' = s.stdout

LoadResult(s) ==
    /\ Install(s)
    /\ pc' = IF s.panicked THEN "panicked" ELSE "start"

Load ==
    /\ pc = "load"
    /\ program' = EncodeSeq(ast)
    /\ LoadResult(load_from_json(EncodeSeq(ast), NewInterpreter(TRUE)))
    /\ ref' = load_from_json(EncodeSeq(ast), NewInterpreter(FALSE))
    /\ UNCHANGED <<src, ast, i, call_result, error>>

InterpretStart ==
    /\ pc = "start"
    /\ Install(Emit(Self, "trace", "Functions:"))
    /\ ref' = IF ref.panicked THEN ref ELSE Emit(ref, "trace", "Functions:")
    /\ i' = 1
    /\ pc' = IF Len(program) = 0 THEN "done" ELSE "run"
    /\ UNCHANGED <<src, ast, program, call_result, error>>

StepResult(r) ==
    /\ Install(r.s)
    /\ call_result' = r.val
    /\ pc' = IF r.s.panicked THEN "panicked"
             ELSE IF i = Len(program) THEN "done" ELSE "run"

InterpretStep ==
    /\ pc = "run"
    /\ StepResult(InterpretElement(program[i], Self))
    /\ ref' = IF ref.panicked THEN ref ELSE InterpretElement(program[i], ref).s
    /\ i' = i + 1
    /\ UNCHANGED <<src, ast, program, error>>

-----------------------------------------------------------------------------
(* parser.rs on a text of tokens.  A token is an integer literal, a name,  *)
(* one of + - * / = ( ) { }, a keyword (write and if with the whitespace   *)
(* that follows them, else), a word no statement starts with, or           *)
(* whitespace: "\n" ends a line, " " is a space written out where the      *)
(* parser matches the next character without skipping whitespace first.    *)
(* A parser returns [ok, node, rest] (nom's IResult).                      *)

Lits == 2..MaxLit
LitTokens == {ToString(n) : n \in Lits}
OpTokens == {"+", "-", "*"}
Tokens == LitTokens \cup OpTokens \cup {"(", ")"}
NameTokens == {"a", "f"}
Whitespace == {" ", "\n"}

(* i32::from_str on the digits of a literal token                          *)
LitValue(tok) == CHOOSE n \in Lits : ToString(n) = tok

Fail(input) == [ok |-> FALSE, node |-> NullV, rest |-> input]
Done(node, rest) == [ok |-> TRUE, node |-> node, rest |-> rest]

RECURSIVE multispace0(_)
multispace0(input) ==
    IF input # <<>> /\ Head(input) \in Whitespace THEN multispace0(Tail(input)) ELSE input

integer(input) ==
    IF input # <<>> /\ Head(input) \in LitTokens
    THEN Done(IntLit(LitValue(Head(input))), Tail(input))
    ELSE Fail(input)

(* take_while1(is_alphanumeric || '_'): names and literal tokens are       *)
(* alphanumeric.                                                           *)
identifier(input) ==
    IF input # <<>> /\ Head(input) \in LitTokens \cup NameTokens
    THEN Done(Ident(Head(input)), Tail(input))
    ELSE Fail(input)

RECURSIVE factor(_)
RECURSIVE term(_)
RECURSIVE math_expression(_)
RECURSIVE TermLoop(_, _)
RECURSIVE ExprLoop(_, _)

(* delimited(tag("("), math_expression, tag(")"))                          *)
parenthesized_expression(input) ==
    IF input # <<>> /\ Head(input) = "("
    THEN Bind(math_expression(Tail(input)), LAMBDA e :
             IF e.ok /\ e.rest # <<>> /\ Head(e.rest) = ")"
             THEN Done(e.node, Tail(e.rest))
             ELSE Fail(input))
    ELSE Fail(input)

(* alt((float, integer, boolean, identifier, string_literal, array_literal,*)
(* dictionary_literal, parenthesized_expression)): on these tokens only    *)
(* integer, identifier and parenthesized_expression can match first.       *)
factor(input) ==
    IF integer(input).ok THEN integer(input)
    ELSE IF identifier(input).ok THEN identifier(input)
    ELSE parenthesized_expression(input)

(* many0 of (operator, operand), each after optional whitespace, folded to *)
(* the left; a failed repetition leaves the input where the repetition     *)
(* began.                                                                  *)
TermLoop(acc, input) ==
    Bind(multispace0(input), LAMBDA t :
        IF t # <<>> /\ Head(t) \in {"*", "/"}
        THEN Bind(factor(multispace0(Tail(t))), LAMBDA f :
                 IF f.ok THEN TermLoop(Bin(acc, Head(t), f.node), f.rest)
                 ELSE Done(acc, input))
        ELSE Done(acc, input))

term(input) ==
    Bind(factor(input), LAMBDA init :
        IF init.ok THEN TermLoop(init.node, init.rest) ELSE Fail(input))

(* + and - folded to the right: the right operand is the rest of the chain. *)
ExprLoopRight(acc, input) ==
    Bind(multispace0(input), LAMBDA t :
        IF t # <<>> /\ Head(t) \in {"+", "-"}
        THEN Bind(math_expression(multispace0(Tail(t))), LAMBDA f :
                 IF f.ok THEN Done(Bin(acc, Head(t), f.node), f.rest)
                 ELSE Done(acc, input))
        ELSE Done(acc, input))

ExprLoop(acc, input) ==
    Bind(multispace0(input), LAMBDA t :
        IF t # <<>> /\ Head(t) \in {"+", "-"}
        THEN Bind(term(multispace0(Tail(t))), LAMBDA f :
                 IF f.ok THEN ExprLoop(Bin(acc, Head(t), f.node), f.rest)
                 ELSE Done(acc, input))
        ELSE Done(acc, input))

math_expression(input) ==
    Bind(term(input), LAMBDA init :
        IF init.ok THEN ExprLoop(init.node, init.rest) ELSE Fail(input))

comparison_operator(input) ==
    IF input # <<>> /\ Head(input) \in {"=", "!=", "<=", ">=", "<", ">"}
    THEN Done(Head(input), Tail(input))
    ELSE Fail(input)

RECURSIVE ComparisonLoop(_, _)
ComparisonLoop(acc, input) ==
    Bind(comparison_operator(multispace0(input)), LAMBDA op :
        IF op.ok
        THEN Bind(math_expression(multispace0(op.rest)), LAMBDA f :
                 IF f.ok THEN ComparisonLoop(Bin(acc, op.node, f.node), f.rest)
                 ELSE Done(acc, input))
        ELSE Done(acc, input))

comparison_expression(input) ==
    Bind(math_expression(input), LAMBDA left :
        IF left.ok THEN ComparisonLoop(left.node, left.rest) ELSE Fail(input))

(* delimited(char('('), separated_list0(',', preceded(multispace0,         *)
(* factor)), char(')')); the token alphabet has no comma, so the list      *)
(* holds at most one factor.                                               *)
parse_arguments(input) ==
    IF input # <<>> /\ Head(input) = "("
    THEN Bind(factor(multispace0(Tail(input))), LAMBDA f :
             Bind(IF f.ok THEN f.rest ELSE Tail(input), LAMBDA rest :
                 IF rest # <<>> /\ Head(rest) = ")"
                 THEN Done(IF f.ok THEN <<f.node>> ELSE <<>>, Tail(rest))
                 ELSE Fail(input)))
    ELSE Fail(input)

function_call(input) ==
    Bind(identifier(input), LAMBDA name :
        Bind(parse_arguments(name.rest), LAMBDA args :
            IF name.ok /\ args.ok THEN Done(Call(name.node.val, args.node), args.rest)
            ELSE Fail(input)))

(* The items of write_stmt after "write" and its whitespace:               *)
(* separated_list0(',', preceded(multispace0, alt((function_call,          *)
(* math_expression, ...)))).                                               *)
write_stmt(input) ==
    Bind(function_call(multispace0(input)), LAMBDA c :
        IF c.ok THEN Done(Write(<<c.node>>), c.rest)
        ELSE Bind(math_expression(multispace0(input)), LAMBDA e :
                 IF e.ok THEN Done(Write(<<e.node>>), e.rest)
                 ELSE Done(Write(<<>>), input)))

RECURSIVE statement(_)
RECURSIVE StatementLoop(_, _)

(* char('{'), many0(preceded(multispace0, statement)), char('}'): the      *)
(* block of an if, elif or else; the closing brace is matched where the    *)
(* last statement ended.                                                   *)
IfBlock(input) ==
    IF input # <<>> /\ Head(input) = "{"
    THEN Bind(StatementLoop(<<>>, Tail(input)), LAMBDA b :
             IF b.ok /\ b.rest # <<>> /\ Head(b.rest) = "}"
             THEN Done(Block(b.node), Tail(b.rest))
             ELSE Fail(input))
    ELSE Fail(input)

(* The loop of if_else after the then-block; the token alphabet has no     *)
(* elif, so the loop ends with an else-block or at once, and then leaves   *)
(* the whitespace it looked past.                                          *)
ElseLoop(condition, then_branch, input) ==
    Bind(multispace0(input), LAMBDA t :
        IF t # <<>> /\ Head(t) = "else"
        THEN Bind(IfBlock(multispace0(Tail(t))), LAMBDA e :
                 IF e.ok THEN Done(ParsedIf(condition, then_branch, <<>>, e.node), e.rest)
                 ELSE Fail(input))
        ELSE Done(ParsedIf(condition, then_branch, <<>>, NullV), input))

if_else(input) ==
    IF input # <<>> /\ Head(input) = "if"
    THEN Bind(comparison_expression(Tail(input)), LAMBDA c :
             IF ~c.ok THEN Fail(input)
             ELSE Bind(IfBlock(multispace0(c.rest)), LAMBDA b :
                      IF b.ok THEN ElseLoop(c.node, b.node, b.rest) ELSE Fail(input)))
    ELSE Fail(input)

(* The body of function and its closing brace:                             *)
(* delimited(multispace0, char('}'), multispace0) after the statements.    *)
FunctionBody(name, args, input) ==
    IF input # <<>> /\ Head(input) = "{"
    THEN Bind(StatementLoop(<<>>, Tail(input)), LAMBDA b :
             Bind(multispace0(b.rest), LAMBDA t :
                 IF b.ok /\ t # <<>> /\ Head(t) = "}"
                 THEN Done(Func(name, args, b.node), multispace0(Tail(t)))
                 ELSE Fail(input)))
    ELSE Fail(input)

function(input) ==
    Bind(identifier(input), LAMBDA name :
        IF ~name.ok THEN Fail(input)
        ELSE Bind(parse_arguments(multispace0(name.rest)), LAMBDA args :
                 IF ~args.ok THEN Fail(input)
                 ELSE Bind(FunctionBody(name.node.val, args.node, multispace0(args.rest)),
                           LAMBDA f : IF f.ok THEN f ELSE Fail(input))))

(* statement: preceded(multispace0, alt((return_stmt, write_stmt,          *)
(* variable_assign, function, function_call, if_else, coincide))).  Of the *)
(* alternatives write_stmt matches the keyword write, function and         *)
(* function_call a name or literal followed by its arguments, if_else the  *)
(* keyword if; return_stmt, variable_assign and coincide match none of the *)
(* tokens.                                                                 *)
statement(input) ==
    Bind(multispace0(input), LAMBDA t :
        IF t # <<>> /\ Head(t) = "write" THEN write_stmt(Tail(t))
        ELSE Bind(function(t), LAMBDA fn :
                 IF fn.ok THEN fn
                 ELSE Bind(function_call(t), LAMBDA c :
                          IF c.ok THEN c
                          ELSE Bind(if_else(t), LAMBDA e :
                                   IF e.ok THEN e ELSE Fail(input)))))

(* many0(preceded(multispace0, statement)): the statements parsed and the  *)
(* text left where a statement failed; an error when a statement matched   *)
(* without consuming input.                                                *)
StatementLoop(stmts, input) ==
    Bind(statement(multispace0(input)), LAMBDA c :
        IF ~c.ok THEN Done(stmts, input)
        ELSE IF c.rest = input THEN Fail(input)
        ELSE StatementLoop(Append(stmts, c.node), c.rest))

ProgramLoop(input) == StatementLoop(<<>>, input)

(* The input text of the lines, "\n" between them.                         *)
RECURSIVE Text(_)
Text(lines) ==
    IF lines = <<>> THEN <<>>
    ELSE IF Len(lines) = 1 THEN Head(lines)
    ELSE Head(lines) \o <<"\n">> \o Text(Tail(lines))

(* input.lines().count(): a line end at the very end of the text starts no *)
(* further line.                                                           *)
LinesCount(lines) ==
    IF Len(lines) > 1 /\ lines[Len(lines)] = <<>> THEN Len(lines) - 1 ELSE Len(lines)

(* str::contains: l occurs in text; the empty string occurs in any text.   *)
Contains(text, l) ==
    \E j \in 0..(Len(text) - Len(l)) : SubSeq(text, j + 1, j + Len(l)) = l

(* input.lines().take_while(|l| !remaining.contains(l)).count()            *)
RECURSIVE TakeWhileCount(_, _)
TakeWhileCount(lines, remaining) ==
    IF lines = <<>> \/ Contains(remaining, Head(lines)) THEN 0
    ELSE 1 + TakeWhileCount(Tail(lines), remaining)

(* str::trim                                                               *)
RECURSIVE Trim(_)
Trim(text) ==
    IF text = <<>> THEN text
    ELSE IF Head(text) \in Whitespace THEN Trim(Tail(text))
    ELSE IF text[Len(text)] \in Whitespace THEN Trim(SubSeq(text, 1, Len(text) - 1))
    ELSE text

UnknownToken(token, line) == [tag |-> "UnknownToken", token |-> token, line |-> line]
SyntaxError(line) == [tag |-> "SyntaxError", line |-> line]

(* parse_program: Ok(Program) when nothing but whitespace remains,         *)
(* UnknownToken when text remains, SyntaxError when program fails.         *)
parse_program(lines) ==
    Bind(ProgramLoop(Text(lines)), LAMBDA p :
        IF ~p.ok
        THEN [ok |-> FALSE, node |-> <<>>, error |-> SyntaxError(LinesCount(lines))]
        ELSE IF Trim(p.rest) # <<>>
        THEN [ok |-> FALSE, node |-> <<>>,
              error |-> UnknownToken(Trim(p.rest), TakeWhileCount(lines, p.rest) + 1)]
        ELSE [ok |-> TRUE, node |-> p.node, error |-> NullV])

ParseResult(p) ==
    /\ ast' = p.node
    /\ error' = p.error
    /\ pc' = IF p.ok THEN "load" ELSE "parse_error"

Parse ==
    /\ pc = "parse"
    /\ ParseResult(parse_program(src))
    /\ UNCHANGED <<src, program, i, functions, variables, cache, stdout, call_result, ref>>

-----------------------------------------------------------------------------
(* Programs the runs start from.  Each statement is written as parser.rs   *)
(* builds it from the source text quoted beside it.                        *)

WriteThen == Block(<<Write(<<StrLit("then")>>)>>)
WriteElif == Block(<<Write(<<StrLit("elif")>>)>>)
WriteElse == Block(<<Write(<<StrLit("else")>>)>>)

StatementPool ==
    { Assign("a", IntLit(1)),                                   \* a is 1
      Assign("a", IntLit(2)),                                   \* a is 2
      Write(<<Ident("a")>>),                                    \* write a
      Write(<<Bin(Ident("a"), "+", IntLit(1))>>),               \* write a + 1
      Func("f", <<Ident("x")>>,                                 \* f(x){ write x
           << Write(<<Ident("x")>>),                            \*   return x * 2
              Ret(Bin(Ident("x"), "*", IntLit(2))),             \*   write "late"
              Write(<<StrLit("late")>>),                        \*   return x + 1 }
              Ret(Bin(Ident("x"), "+", IntLit(1))) >>),
      Func("double", <<Ident("x")>>,                            \* double(x){ return x * 2 }
           << Ret(Bin(Ident("x"), "*", IntLit(2))) >>),
      Call("f", <<IntLit(1)>>),                                 \* f(1)
      Call("f", <<IntLit(2)>>),                                 \* f(2)
      Call("double", <<IntLit(2)>>),                            \* double(2)
      Call("double", <<Ident("a")>>),                           \* double(a)
      Write(<<Call("double", <<IntLit(21)>>)>>),                \* write double(21)
      Write(<<Bin(IntLit(7), "/", IntLit(2))>>),                \* write 7 / 2
      Write(<<Bin(FloatLit("2.5"), "+", IntLit(1))>>),          \* write 2.5 + 1
      ParsedIf(Bin(Ident("a"), "=", IntLit(1)), WriteThen,      \* if a = 1 {write "then"}
               << <<Bin(Ident("a"), "=", IntLit(2)), WriteElif>> >>,  \* elif a = 2 {write "elif"}
               WriteElse),                                      \* else {write "else"}
      Coincide(Ident("a"),                                      \* coincide a: 2 then write "two"
               << <<IntLit(2), Write(<<StrLit("two")>>)>> >>,   \*   default write "other"
               Write(<<StrLit("other")>>)),
      Coincide(Ident("a"), <<>>, Write(<<StrLit("other")>>)),   \* coincide a: default write "other"
      Assign("d", Dict(<< <<IntLit(1), IntLit(2)>> >>)) }       \* d is {1: 2}

Programs == UNION {[1..n -> StatementPool] : n \in 1..MaxProgLen}

Fresh ==
    /\ program = <<>>
    /\ i = 0
    /\ functions = EmptyMap
    /\ variables = EmptyMap
    /\ cache = EmptyMap
    /\ stdout = <<>>
    /\ call_result = 0
    /\ ref = NewInterpreter(FALSE)
    /\ error = NullV

Init ==
    /\ src = <<>>
    /\ ast \in Programs
    /\ pc = "load"
    /\ Fresh

Next == Load \/ InterpretStart \/ InterpretStep

Spec == Init /\ [][Next]_vars

(* `x is n` followed by `write x + k`.                                     *)
VarNames == {"a", "total"}

InitAssignWrite ==
    /\ src = <<>>
    /\ \E x \in VarNames, n \in 0..MaxInt, k \in 0..MaxInt :
          ast = << Assign(x, IntLit(n)), Write(<<Bin(Ident(x), "+", IntLit(k))>>) >>
    /\ pc = "load"
    /\ Fresh

SpecAssignWrite == InitAssignWrite /\ [][Next]_vars

(* Arithmetic expressions over integer literals, + - * and parentheses,    *)
(* by length in tokens.                                                    *)
RECURSIVE GenE(_)
RECURSIVE GenT(_)
RECURSIVE GenF(_)
GenF(n) ==
    IF n = 1 THEN {<<l>> : l \in LitTokens}
    ELSE IF n >= 3 THEN {<<"(">> \o e \o <<")">> : e \in GenE(n - 2)}
    ELSE {}
GenT(n) ==
    GenF(n) \cup UNION {{t \o <<"*">> \o f : t \in GenT(k), f \in GenF(n - 1 - k)} :
                           k \in 1..(n - 2)}
GenE(n) ==
    GenT(n) \cup UNION {UNION {{e \o <<o>> \o t : e \in GenE(k), t \in GenT(n - 1 - k)} :
                                  o \in {"+", "-"}} : k \in 1..(n - 2)}

Expressions(maxlen) == UNION {GenE(n) : n \in 1..maxlen}

(* Two lines: `write <earlier expression>` and `write <expression>`.       *)
InitArith ==
    /\ \E p \in Expressions(MaxPrimeLen), e \in Expressions(MaxSrcLen) :
          src = << <<"write">> \o p, <<"write">> \o e >>
    /\ ast = <<>>
    /\ pc = "parse"
    /\ Fresh

NextArith == Parse \/ Load \/ InterpretStart \/ InterpretStep

SpecArith == InitArith /\ [][NextArith]_vars

(* Programs of up to maxlen statements of a pool.                          *)
ProgramsOver(pool, maxlen) == UNION {[1..n -> pool] : n \in 1..maxlen}

InitOver(progs) ==
    /\ src = <<>>
    /\ ast \in progs
    /\ pc = "load"
    /\ Fresh

(* Writes of a division, between assignments to its right operand.         *)
DivisionPool ==
    { Assign("a", IntLit(0)),                                   \* a is 0
      Assign("a", IntLit(2)),                                   \* a is 2
      Write(<<Bin(IntLit(10), "/", Ident("a"))>>),              \* write 10 / a
      Write(<<Bin(IntLit(10), "/", IntLit(0))>>) }              \* write 10 / 0

InitDivision == InitOver(ProgramsOver(DivisionPool, MaxProgLen + 1))

SpecDivision == InitDivision /\ [][Next]_vars

(* Calls with too few and too many arguments, at top level and in the      *)
(* blocks of an if statement, beside calls of matching arity.              *)
ArityPool ==
    { Func("double", <<Ident("x")>>,                            \* double(x){ return x * 2 }
           << Ret(Bin(Ident("x"), "*", IntLit(2))) >>),
      Func("g", <<Ident("x")>>,                                 \* g(x){ write x
           << Write(<<Ident("x")>>),                            \*   a is 9
              Assign("a", IntLit(9)),                           \*   return x }
              Ret(Ident("x")) >>),
      Call("double", <<>>),                                     \* double()
      Call("double", <<IntLit(1), IntLit(2)>>),                 \* double(1, 2)
      Call("g", <<IntLit(1), IntLit(2)>>),                      \* g(1, 2)
      Call("g", <<IntLit(1)>>),                                 \* g(1)
      Assign("a", IntLit(1)),                                   \* a is 1
      Write(<<Ident("a")>>),                                    \* write a
      ParsedIf(Bin(Ident("a"), "=", IntLit(1)),                 \* if a = 1 {g(1, 2)}
               Block(<<Call("g", <<IntLit(1), IntLit(2)>>)>>),  \* else {double()}
               <<>>,
               Block(<<Call("double", <<>>)>>)) }

InitArity == InitOver(ProgramsOver(ArityPool, MaxProgLen))

SpecArity == InitArity /\ [][Next]_vars

(* Functions whose bodies write, assign, call and return an identifier,    *)
(* and calls of them.                                                      *)
CallsPool ==
    { Func("show", <<Ident("x")>>,                              \* show(x){ write x }
           << Write(<<Ident("x")>>) >>),
      Func("h", <<Ident("x")>>,                                 \* h(x){ show(1) }
           << Call("show", <<IntLit(1)>>) >>),
      Func("set", <<Ident("x")>>,                               \* set(x){ x is 9
           << Assign("x", IntLit(9)),                           \*   write x }
              Write(<<Ident("x")>>) >>),
      Func("last", <<Ident("x")>>,                              \* last(x){ b is 3
           << Assign("b", IntLit(3)),                           \*   return b }
              Ret(Ident("b")) >>),
      Func("same", <<Ident("x")>>,                              \* same(x){ return x }
           << Ret(Ident("x")) >>),
      Call("show", <<IntLit(1)>>),                              \* show(1)
      Call("h", <<IntLit(1)>>),                                 \* h(1)
      Call("set", <<IntLit(1)>>),                               \* set(1)
      Call("last", <<IntLit(1)>>),                              \* last(1)
      Call("same", <<IntLit(2)>>),                              \* same(2)
      Assign("x", IntLit(5)),                                   \* x is 5
      Write(<<Ident("x")>>) }                                   \* write x

InitCalls == InitOver(ProgramsOver(CallsPool, MaxProgLen))

SpecCalls == InitCalls /\ [][Next]_vars

(* Write statements of one or several items of every literal shape, alone, *)
(* after an assignment and a write, or with the assignment between.        *)
WriteItemPool ==
    { StrLit("x="), StrLit("hello"), Ident("a"), IntLit(1),
      Bin(Ident("a"), "+", IntLit(1)),
      FloatLit("2.5"), BoolLit(TRUE), Arr(<<IntLit(1), IntLit(2)>>) }

ItemLists == UNION {[1..n -> WriteItemPool] : n \in 1..MaxItems}

WritePrograms ==
    {<<Write(w)>> : w \in ItemLists}
        \cup {<<Assign("a", IntLit(1)), Write(<<v>>), Write(w)>> :
                 v \in WriteItemPool, w \in ItemLists}
        \cup {<<Write(<<v>>), Assign("a", IntLit(1)), Write(w)>> :
                 v \in WriteItemPool, w \in ItemLists}

InitWrite == InitOver(WritePrograms)

SpecWrite == InitWrite /\ [][Next]_vars

(* If statements with an else-block and no elif, on conditions the parser  *)
(* accepts as comparison expressions, after assignments to a.              *)
IfPool ==
    { Assign("a", IntLit(5)),                                   \* a is 5
      Assign("a", IntLit(1)),                                   \* a is 1
      ParsedIf(Bin(Ident("a"), "=", IntLit(5)),                 \* if a = 5 {write "then"}
               WriteThen, <<>>, WriteElse),                     \* else {write "else"}
      ParsedIf(Bin(Bin(Ident("a"), "+", IntLit(1)), "=", IntLit(6)),  \* if a + 1 = 6 {..}
               WriteThen, <<>>, WriteElse),                     \* else {..}
      ParsedIf(Bin(Ident("a"), "<", IntLit(6)),                 \* if a < 6 {..}
               WriteThen, <<>>, WriteElse) }                    \* else {..}

InitIf == InitOver(ProgramsOver(IfPool, MaxProgLen))

SpecIf == InitIf /\ [][Next]_vars

(* Source texts of up to MaxProgLen lines: a write, a blank line, a word   *)
(* no statement starts with, such a word before the text of a write, and   *)
(* a write followed by such a word.                                        *)
LinePool ==
    { <<"write", "2">>,                                         \* write 2
      <<>>,                                                     \* (blank)
      <<"@@@">>,                                                \* @@@
      <<"#", "write", "2">>,                                    \* # write 2
      <<"write", "2", "@@@">> }                                 \* write 2 @@@

InitText ==
    /\ src \in ProgramsOver(LinePool, MaxProgLen)
    /\ ast = <<>>
    /\ pc = "parse"
    /\ Fresh

SpecText == InitText /\ [][NextArith]_vars

(* The lines the write statements printed.                                 *)
WriteLines(out) ==
    LET w == SelectSeq(out, LAMBDA l : l.kind = "write")
    IN  [k \in 1..Len(w) |-> w[k].text]

-----------------------------------------------------------------------------
(* Properties.                                                             *)

(* The value of an arithmetic expression under the standard reading: the   *)
(* rightmost + or - outside parentheses splits the expression, applied     *)
(* left to right; failing that the rightmost *; failing that the           *)
(* expression is a parenthesised expression or a literal.  <<v>> is the    *)
(* value, <<>> marks text that is no expression.                           *)
DepthBefore(toks, k) ==
    Cardinality({j \in 1..(k - 1) : toks[j] = "("})
        - Cardinality({j \in 1..(k - 1) : toks[j] = ")"})

TopLevel(toks, ops) ==
    {k \in 2..(Len(toks) - 1) : toks[k] \in ops /\ DepthBefore(toks, k) = 0}

MaxOf(S) == CHOOSE k \in S : \A j \in S : j <= k

RECURSIVE StdValue(_)
StdSplit(toks, k) ==
    LET l == StdValue(SubSeq(toks, 1, k - 1))
        r == StdValue(SubSeq(toks, k + 1, Len(toks)))
    IN  IF l = <<>> \/ r = <<>> THEN <<>>
        ELSE CASE toks[k] = "+" -> <<l[1] + r[1]>>
               [] toks[k] = "-" -> <<l[1] - r[1]>>
               [] toks[k] = "*" -> <<l[1] * r[1]>>

StdValue(toks) ==
    IF TopLevel(toks, {"+", "-"}) # {} THEN StdSplit(toks, MaxOf(TopLevel(toks, {"+", "-"})))
    ELSE IF TopLevel(toks, {"*"}) # {} THEN StdSplit(toks, MaxOf(TopLevel(toks, {"*"})))
    ELSE IF Len(toks) = 1 /\ toks[1] \in LitTokens THEN <<LitValue(toks[1])>>
    ELSE IF Len(toks) >= 3 /\ toks[1] = "(" /\ toks[Len(toks)] = ")"
    THEN StdValue(SubSeq(toks, 2, Len(toks) - 1))
    ELSE <<>>

(* C1: every accepted program loads and runs to completion; no runtime     *)
(* anomaly aborts the run.                                                 *)
C1_RunsToCompletion == pc # "panicked"

(* C2: the lines written with the cache equal the lines written when       *)
(* every operation is recomputed against the current bindings.             *)
C2_CacheTransparent ==
    (pc \in {"run", "done"} /\ ~ref.panicked) => WriteLines(stdout) = WriteLines(ref.stdout)

(* The statements of a body up to and including its first Return.          *)
RECURSIVE UpToFirstReturn(_)
UpToFirstReturn(stmts) ==
    IF stmts = <<>> THEN <<>>
    ELSE IF Head(stmts).tag = "Return" THEN <<Head(stmts)>>
    ELSE <<Head(stmts)>> \o UpToFirstReturn(Tail(stmts))

CutAtReturn(fs) ==
    [f \in DOMAIN fs |-> [fs[f] EXCEPT !.body = Block(UpToFirstReturn(fs[f].body.stmts))]]

(* C3: a call executes its body up to the first Return only: the lines     *)
(* written, the bindings and the result are those of the body cut after    *)
(* its first Return.                                                       *)
C3_StopsAtFirstReturn ==
    [][(pc = "run" /\ program[i].tag = "FunctionCall")
        => LET e == process_function_call(program[i],
                                          [Self EXCEPT !.functions = CutAtReturn(functions)])
           IN  (~e.s.panicked /\ pc' # "panicked")
                  => /\ call_result' = e.val
                     /\ WriteLines(stdout') = WriteLines(e.s.stdout)
                     /\ variables' = e.s.variables]_vars

ConditionHolds(c) ==
    c.tag = "BinaryOp" /\ evaluate_if_else_condition(c, Self) = <<TRUE>>

(* C4: when the if condition is false and the first elif condition is      *)
(* true, exactly the statements of that elif branch execute.               *)
C4_ElifBranchRuns ==
    [][(/\ pc = "run"
        /\ ast[i].tag = "ParsedIf"
        /\ ast[i].elif_branches # <<>>
        /\ ~ConditionHolds(ast[i].condition)
        /\ ConditionHolds(ast[i].elif_branches[1][1]))
        => LET e == execute_block(Encode(ast[i].elif_branches[1][2]), Self)
           IN  /\ WriteLines(stdout') = WriteLines(e.stdout)
               /\ variables' = e.variables]_vars

(* The action a coincide statement selects: that of the first case whose   *)
(* condition equals the subject, else the default; <<>> when there is none.*)
RECURSIVE FirstMatch(_, _)
FirstMatch(cases, subject) ==
    IF cases = <<>> THEN <<>>
    ELSE IF resolve_value(Head(cases)[1], EmptyMap, Self).val = subject
    THEN <<Head(cases)[2]>>
    ELSE FirstMatch(Tail(cases), subject)

SelectedAction(c) ==
    LET m == FirstMatch(c.cases, resolve_value(c.expr, EmptyMap, Self).val)
    IN  IF m # <<>> THEN m
        ELSE IF c.default.tag # "Null" THEN <<c.default>>
        ELSE <<>>

(* C5: a coincide statement executes the action of the first case equal    *)
(* to the subject, or else the default action, and nothing more.           *)
C5_CoincideDispatch ==
    [][(pc = "run" /\ program[i].tag = "Coincide")
        => LET a == SelectedAction(program[i])
               e == IF a = <<>> THEN Self ELSE InterpretElement(a[1], Self).s
           IN  /\ WriteLines(stdout') = WriteLines(e.stdout)
               /\ variables' = e.variables]_vars

IsCallOfDefined(item) ==
    /\ item.tag = "FunctionCall"
    /\ item.name \in DOMAIN functions
    /\ Len(item.args) = Len(functions[item.name].args)

(* C6: `write f(n)` with f defined and the arity matching prints the       *)
(* value the call returns.                                                 *)
C6_WriteOfCall ==
    [][(/\ pc = "run"
        /\ program[i].tag = "Write"
        /\ Len(program[i].items) = 1
        /\ IsCallOfDefined(program[i].items[1]))
        => LET e == process_function_call(program[i].items[1], Self)
           IN  ~e.s.panicked
                  => /\ pc' # "panicked"
                     /\ WriteLines(stdout') # <<>>
                     /\ WriteLines(stdout')[Len(WriteLines(stdout'))] = ToString(e.val)]_vars

(* An argument evaluated in the caller's scope, as a literal.              *)
ArgumentValue(arg) ==
    LET v == resolve_value(arg, EmptyMap, Self).val
    IN  IF v.tag = "Number" THEN IntLit(v.n) ELSE arg

(* C7: a call binds each parameter to the value its argument has in the    *)
(* caller's scope: f(a) with a bound to n yields what f(n) yields.         *)
C7_ArgumentsEvaluated ==
    [][(pc = "run" /\ IsCallOfDefined(program[i]))
        => LET call == [program[i] EXCEPT !.args =
                           [k \in 1..Len(program[i].args) |-> ArgumentValue(program[i].args[k])]]
               e == process_function_call(call, Self)
           IN  ~e.s.panicked => (pc' # "panicked" /\ call_result' = e.val)]_vars

(* C8: the program `x is n`, `write x + k` writes the one line n + k.      *)
C8_AssignThenWriteSum ==
    /\ pc # "panicked"
    /\ pc = "done" => WriteLines(stdout) = <<ToString(ast[1].value.val + ast[2].items[1].right.val)>>

C8_Witness ==
    /\ pc = "done"
    /\ ast = << Assign("a", IntLit(5)), Write(<<Bin(Ident("a"), "+", IntLit(1))>>) >>
    /\ WriteLines(stdout) = <<"6">>

C10_FloatCoercion ==
    (pc = "done" /\ Len(ast) = 1)
        => /\ ast[1] = Write(<<Bin(IntLit(7), "/", IntLit(2))>>) => WriteLines(stdout) = <<"3.5">>
           /\ ast[1] = Write(<<Bin(FloatLit("2.5"), "+", IntLit(1))>>)
                 => WriteLines(stdout) = <<"3.5">>

(* The records one step appended to standard output.                       *)
Appended(old, new) == SubSeq(new, Len(old) + 1, Len(new))

IsDivision(item) == item.tag = "BinaryOp" /\ item.op = "/"

(* C11: a write of a division whose right operand resolves to zero prints  *)
(* the division-by-zero diagnostic, writes the neutral value null as its   *)
(* line, and the run goes on.                                              *)
C11_DivisionByZero ==
    [][(/\ pc = "run"
        /\ program[i].tag = "Write"
        /\ Len(program[i].items) = 1
        /\ IsDivision(program[i].items[1])
        /\ resolve_value(program[i].items[1].left, EmptyMap, Self).val.tag = "Number"
        /\ resolve_value(program[i].items[1].right, EmptyMap, Self).val = Num(0))
        => /\ pc' # "panicked"
           /\ \E k \in DOMAIN Appended(stdout, stdout') :
                 Appended(stdout, stdout')[k] = [kind |-> "diag", text |-> "Division by zero"]
           /\ stdout'[Len(stdout')] = [kind |-> "write", text |-> "null"]]_vars

IsArityMismatch(element) ==
    /\ element.tag = "FunctionCall"
    /\ element.name \in DOMAIN functions
    /\ Len(element.args) # Len(functions[element.name].args)

ArityDiagnostic == [kind |-> "diag", text |-> "Function expects arguments"]

(* The block an if statement selects in the current state, <<>> when it    *)
(* selects none.                                                           *)
SelectedBlock(element) ==
    LET c == evaluate_if_else_condition(element.condition, Self)
    IN  IF element.condition.tag # "BinaryOp" \/ c = <<>> THEN <<>>
        ELSE IF c[1] THEN element.if_block.stmts
        ELSE IF element.else_block.tag = "Block" THEN element.else_block.stmts
        ELSE <<>>

(* C12: a call with the wrong number of arguments prints a diagnostic and  *)
(* yields 0; no statement of the body runs, the global bindings and the    *)
(* cache stay as they were, and the run goes on with the next statement.   *)
(* The same holds of such a call in the block an if statement selects.     *)
C12_ArityMismatch ==
    [][/\ (pc = "run" /\ IsArityMismatch(program[i]))
            => /\ call_result' = 0
               /\ variables' = variables
               /\ cache' = cache
               /\ WriteLines(stdout') = WriteLines(stdout)
               /\ stdout'[Len(stdout')] = ArityDiagnostic
               /\ Len(stdout') = Len(stdout) + 2
               /\ pc' = IF i = Len(program) THEN "done" ELSE "run"
       /\ (/\ pc = "run"
           /\ program[i].tag = "IfElse"
           /\ SelectedBlock(program[i]) # <<>>
           /\ \A k \in DOMAIN SelectedBlock(program[i]) :
                 IsArityMismatch(SelectedBlock(program[i])[k]))
            => /\ variables' = variables
               /\ cache' = cache
               /\ WriteLines(stdout') = WriteLines(stdout)
               /\ stdout'[Len(stdout')] = ArityDiagnostic
               /\ pc' = IF i = Len(program) THEN "done" ELSE "run"]_vars

C12_Witness ==
    /\ pc = "run"
    /\ i = 3
    /\ program[1] = Assign("a", IntLit(1))
    /\ program[2] = Call("g", <<IntLit(1), IntLit(2)>>)
    /\ "g" \in DOMAIN functions
    /\ stdout[Len(stdout)] = ArityDiagnostic
    /\ call_result = 0
    /\ variables["a"] = IntLit(1)

(* A statement of a body executed as the statement it is.                  *)
RunStatement(stmt, scope, s) ==
    CASE stmt.tag = "Write" -> WriteLine(stmt.items, scope, s)
      [] stmt.tag = "VariableAssign" -> process_variable_assign(stmt, s)
      [] stmt.tag = "FunctionCall" -> process_function_call(stmt, s).s
      [] stmt.tag = "IfElse" -> process_if_else(stmt, s)
      [] OTHER -> s

RECURSIVE RunAll(_, _, _)
RunAll(block, scope, s) ==
    IF block = <<>> THEN s
    ELSE RunAll(Tail(block), scope, RunStatement(Head(block), scope, s))

HasReturn(stmts) == \E k \in DOMAIN stmts : stmts[k].tag = "Return"

(* The scope a call of a defined function starts its body with.            *)
CallScope(call) == Extend(variables, ArgMap(functions[call.name].args, call.args))

(* C13: a call of a function whose body holds no Return yields 0, after    *)
(* every statement of the body was executed.                               *)
C13_NoReturnYieldsZero ==
    [][(/\ pc = "run"
        /\ IsCallOfDefined(program[i])
        /\ ~HasReturn(functions[program[i].name].body.stmts))
        => LET e == RunAll(functions[program[i].name].body.stmts, CallScope(program[i]), Self)
           IN  /\ pc' # "panicked"
               /\ call_result' = 0
               /\ WriteLines(stdout') = WriteLines(e.stdout)
               /\ variables' = e.variables]_vars

(* C14: `return y` resolves y in the local scope first and in the global   *)
(* table second, as the bindings are at the moment of the lookup.          *)
C14_ReturnIdentifierScope ==
    [][(/\ pc = "run"
        /\ IsCallOfDefined(program[i])
        /\ LET b == functions[program[i].name].body.stmts
           IN  /\ b # <<>>
               /\ b[Len(b)].tag = "Return"
               /\ b[Len(b)].expr.tag = "Identifier"
               /\ ~HasReturn(SubSeq(b, 1, Len(b) - 1)))
        => LET b == functions[program[i].name].body.stmts
               before == BodyLoop(SubSeq(b, 1, Len(b) - 1), CallScope(program[i]), <<>>, Self).s
               v == resolve_value(b[Len(b)].expr, CallScope(program[i]), before).val
           IN  v.tag = "Number" => (pc' # "panicked" /\ call_result' = v.n)]_vars

(* C15: after a call, each parameter name is globally bound exactly as it  *)
(* was before the call.                                                    *)
C15_ScopeDiscarded ==
    [][(pc = "run" /\ IsCallOfDefined(program[i]) /\ pc' # "panicked")
        => \A k \in DOMAIN functions[program[i].name].args :
              LET p == functions[program[i].name].args[k]
              IN  IF p \in DOMAIN variables
                  THEN p \in DOMAIN variables' /\ variables'[p] = variables[p]
                  ELSE p \notin DOMAIN variables']_vars

RECURSIVE ConcatAll(_)
ConcatAll(pieces) ==
    IF pieces = <<>> THEN "" ELSE Head(pieces) \o ConcatAll(Tail(pieces))

(* C16: a write statement prints exactly one line, the texts of its items  *)
(* one after the other in list order with nothing between them.            *)
C16_WriteConcatenates ==
    [][(pc = "run" /\ program[i].tag = "Write")
        => /\ pc' # "panicked"
           /\ WriteLines(stdout') =
                 Append(WriteLines(stdout),
                        ConcatAll([k \in DOMAIN program[i].items |->
                                      process_write(program[i].items[k], EmptyMap, Self).res]))]_vars

C16_Witness ==
    /\ pc = "done"
    /\ ast = << Assign("a", IntLit(1)), Write(<<Ident("a")>>),
                Write(<<StrLit("x="), Bin(Ident("a"), "+", IntLit(1))>>) >>
    /\ WriteLines(stdout) = <<"1", "x=2">>

RECURSIVE ElementsText(_)
ElementsText(es) ==
    IF es = <<>> THEN ""
    ELSE ToString(Head(es).val) \o (IF Len(es) = 1 THEN "" ELSE "," \o ElementsText(Tail(es)))

(* The textual form of a literal: the decimal text of a number, true or    *)
(* false, the characters of a string, [e1,e2,...] for an array.            *)
LiteralText(item) ==
    CASE item.tag = "Integer" -> ToString(item.val)
      [] item.tag = "Float" -> item.val
      [] item.tag = "Bool" -> IF item.val THEN "true" ELSE "false"
      [] item.tag = "String" -> item.val
      [] item.tag = "Array" -> "[" \o ElementsText(item.items) \o "]"

(* C17: a write of one literal item prints the literal's textual form.     *)
C17_LiteralFormat ==
    [][(/\ pc = "run"
        /\ program[i].tag = "Write"
        /\ Len(program[i].items) = 1
        /\ program[i].items[1].tag \in {"Integer", "Float", "Bool", "String", "Array"})
        => /\ pc' # "panicked"
           /\ WriteLines(stdout') =
                 Append(WriteLines(stdout), LiteralText(program[i].items[1]))]_vars

ComparisonOps == {"=", "!=", "<=", ">=", "<", ">"}

(* C18: an if statement with an else-block and no elif executes exactly    *)
(* one of its two blocks, and for a condition l = r the then-block exactly *)
(* when the values l and r evaluate to are equal.                          *)
C18_IfElseCondition ==
    [][(/\ pc = "run"
        /\ ast[i].tag = "ParsedIf"
        /\ ast[i].elif_branches = <<>>
        /\ ast[i].else_branch.tag = "Block"
        /\ ast[i].condition.tag = "BinaryOp"
        /\ ast[i].condition.op \in ComparisonOps)
        => LET then == execute_block(Encode(ast[i].then_branch), Self)
               else == execute_block(Encode(ast[i].else_branch), Self)
               l == resolve_value(ast[i].condition.left, EmptyMap, Self).val
               r == resolve_value(ast[i].condition.right, EmptyMap, Self).val
           IN  /\ WriteLines(stdout') \in {WriteLines(then.stdout), WriteLines(else.stdout)}
               /\ ast[i].condition.op = "="
                     => WriteLines(stdout') =
                           WriteLines(IF l = r THEN then.stdout ELSE else.stdout)]_vars

(* C19: standard output holds the lines of the write statements and        *)
(* nothing else.                                                           *)
C19_StdoutOnlyWrites ==
    pc = "done" => \A k \in DOMAIN stdout : stdout[k].kind = "write"

(* The line on which parsing stopped: the line of the first character of   *)
(* the remaining text that is not whitespace.                              *)
RemainderLine(lines) ==
    LET text == Text(lines)
        rem == multispace0(ProgramLoop(text).rest)
    IN  1 + Cardinality({j \in 1..(Len(text) - Len(rem)) : text[j] = "\n"})

(* C20: the UnknownToken error carries the trimmed remainder and the       *)
(* number of the line on which the remainder begins.                       *)
C20_UnknownTokenLine ==
    pc = "parse_error"
        => /\ error.tag = "UnknownToken"
           /\ error.token = Trim(ProgramLoop(Text(src)).rest)
           /\ error.line = RemainderLine(src)

(* C21: when the parser stops at a position of the top level where no      *)
(* statement alternative matches, parse_program returns a SyntaxError      *)
(* whose line is the last source line reached.                             *)
C21_SyntaxErrorLine ==
    (pc = "parse_error" /\ ~statement(ProgramLoop(Text(src)).rest).ok)
        => (error.tag = "SyntaxError" /\ error.line = RemainderLine(src))

(* Chains of up to MaxChain integer literals with one of + - * / between   *)
(* neighbours, each written by one write statement.                        *)
RECURSIVE Chains(_)
Chains(n) ==
    IF n = 1 THEN {<<l>> : l \in LitTokens}
    ELSE {c \o <<o, l>> : c \in Chains(n - 1), o \in {"+", "-", "*", "/"}, l \in LitTokens}

InitChains ==
    /\ \E n \in 1..MaxChain : \E c \in Chains(n) : src = << <<"write">> \o c >>
    /\ ast = <<>>
    /\ pc = "parse"
    /\ Fresh

SpecChains == InitChains /\ [][NextArith]_vars

(* The tree of an expression in which operators of one level associate to  *)
(* the left and * and / bind tighter than + and -: the rightmost + or -    *)
(* outside parentheses is the root, its left operand the tree of all the   *)
(* text before it; failing that the rightmost * or /.                      *)
RECURSIVE LeftTree(_)
LeftSplit(toks, k) ==
    Bin(LeftTree(SubSeq(toks, 1, k - 1)), toks[k], LeftTree(SubSeq(toks, k + 1, Len(toks))))

LeftTree(toks) ==
    IF TopLevel(toks, {"+", "-"}) # {} THEN LeftSplit(toks, MaxOf(TopLevel(toks, {"+", "-"})))
    ELSE IF TopLevel(toks, {"*", "/"}) # {}
    THEN LeftSplit(toks, MaxOf(TopLevel(toks, {"*", "/"})))
    ELSE IF Len(toks) = 1 THEN IntLit(LitValue(toks[1]))
    ELSE LeftTree(SubSeq(toks, 2, Len(toks) - 1))

(* C22: operators of one precedence level parse left-associatively, and a  *)
(* chain of * and / is nested below the enclosing + or - node: the parsed  *)
(* item of every write is the left-associated tree of its text.            *)
C22_LeftAssociative ==
    /\ pc # "parse_error"
    /\ pc # "parse" => ast = << Write(<<LeftTree(Tail(src[1]))>>) >>

C22_Witness ==
    /\ pc = "done"
    /\ src = << <<"write", "2", "-", "3", "-", "2">> >>
    /\ ast = << Write(<<Bin(Bin(IntLit(2), "-", IntLit(3)), "-", IntLit(2))>>) >>
    /\ WriteLines(stdout) = <<"-3">>

(* Assignments of a literal and of an expression over an earlier variable, *)
(* and a write of the variable assigned last.                              *)
AssignExprPool ==
    { Assign("a", IntLit(5)),                                   \* a is 5
      Assign("a", IntLit(7)),                                   \* a is 7
      Assign("b", Bin(Ident("a"), "+", IntLit(1))),             \* b is a + 1
      Write(<<Ident("b")>>) }                                   \* write b

InitAssignExpr == InitOver(ProgramsOver(AssignExprPool, MaxProgLen + 1))

SpecAssignExpr == InitAssignExpr /\ [][Next]_vars

(* The value of an expression of integer literals, bound names and + under *)
(* env; <<>> when a name is unbound.                                       *)
RECURSIVE ValueIn(_, _)
ValueIn(e, env) ==
    CASE e.tag = "Integer" -> <<e.val>>
      [] e.tag = "Identifier" -> IF e.val \in DOMAIN env THEN <<env[e.val]>> ELSE <<>>
      [] e.tag = "BinaryOp" ->
            LET l == ValueIn(e.left, env)
                r == ValueIn(e.right, env)
            IN  IF l = <<>> \/ r = <<>> THEN <<>> ELSE <<l[1] + r[1]>>

(* The lines a program of AssignExprPool writes when an assignment binds   *)
(* the name to the value its expression has at that moment; ok is FALSE    *)
(* when a statement uses a name before it is bound.                        *)
RECURSIVE BoundRun(_, _, _)
BoundRun(stmts, env, lines) ==
    IF stmts = <<>> THEN [ok |-> TRUE, lines |-> lines]
    ELSE LET st == Head(stmts)
             v == ValueIn(IF st.tag = "VariableAssign" THEN st.value ELSE st.items[1], env)
         IN  IF v = <<>> THEN [ok |-> FALSE, lines |-> lines]
             ELSE IF st.tag = "VariableAssign"
             THEN BoundRun(Tail(stmts), MapInsert(env, st.name, v[1]), lines)
             ELSE BoundRun(Tail(stmts), env, Append(lines, ToString(v[1])))

(* C23: an assignment binds the name to the value its expression has at    *)
(* the moment of the assignment: after `a is 5`, `b is a + 1` a write of b *)
(* emits 6, and a later `a is 7` does not change what b yields.            *)
C23_AssignBindsValue ==
    (pc = "done" /\ BoundRun(ast, EmptyMap, <<>>).ok)
        => WriteLines(stdout) = BoundRun(ast, EmptyMap, <<>>).lines

(* Blocks holding statements of every kind: a function body with a call,   *)
(* one with an if statement, and an if statement with an if statement and  *)
(* a call in its blocks.                                                   *)
TwoIsTwo == Bin(IntLit(2), "=", IntLit(2))

BlocksPool ==
    { Func("show", <<Ident("x")>>,                              \* show(x){ write x }
           << Write(<<Ident("x")>>) >>),
      Func("h", <<Ident("x")>>,                                 \* h(x){ show(1) }
           << Call("show", <<IntLit(1)>>) >>),
      Func("k", <<Ident("x")>>,                                 \* k(x){ if 2 = 2 {write "then"}
           << ParsedIf(TwoIsTwo, WriteThen, <<>>, WriteElse),   \*         else {write "else"}
              Write(<<Ident("x")>>) >>),                        \*       write x }
      Call("h", <<IntLit(1)>>),                                 \* h(1)
      Call("k", <<IntLit(1)>>),                                 \* k(1)
      ParsedIf(TwoIsTwo,                                        \* if 2 = 2 {
               Block(<< ParsedIf(TwoIsTwo, WriteThen, <<>>, WriteElse),  \*   if 2 = 2 {..} else {..}
                        Write(<<StrLit("after")>>) >>),         \*   write "after" }
               <<>>,
               Block(<<Call("h", <<IntLit(1)>>)>>)),            \* else {h(1)}
      ParsedIf(Bin(IntLit(2), "=", IntLit(3)),                  \* if 2 = 3 {write "then"}
               WriteThen, <<>>,
               Block(<<Call("h", <<IntLit(1)>>)>>)) }           \* else {h(1)}

InitBlocks == InitOver(ProgramsOver(BlocksPool, MaxProgLen))

SpecBlocks == InitBlocks /\ [][Next]_vars

(* C24: a block executes every statement in it whatever its kind: a call   *)
(* in a function body invokes the callee, an if statement in a function    *)
(* body or in the block of an if statement is evaluated and its selected   *)
(* block executed.                                                         *)
C24_BlockRunsEveryStatement ==
    [][/\ (/\ pc = "run"
           /\ IsCallOfDefined(program[i])
           /\ ~HasReturn(functions[program[i].name].body.stmts))
            => WriteLines(stdout') =
                  WriteLines(RunAll(functions[program[i].name].body.stmts,
                                    CallScope(program[i]), Self).stdout)
       /\ (pc = "run" /\ program[i].tag = "IfElse" /\ SelectedBlock(program[i]) # <<>>)
            => WriteLines(stdout') =
                  WriteLines(RunAll(SelectedBlock(program[i]), EmptyMap, Self).stdout)]_vars

(* Functions that assign y in their body and then write or return it,      *)
(* called with and without a global y bound before the call.               *)
LocalsPool ==
    { Assign("y", IntLit(1)),                                   \* y is 1
      Func("p", <<Ident("x")>>,                                 \* p(x){ y is 3
           << Assign("y", IntLit(3)),                           \*   write y }
              Write(<<Ident("y")>>) >>),
      Func("q", <<Ident("x")>>,                                 \* q(x){ y is 3
           << Assign("y", IntLit(3)),                           \*   return y }
              Ret(Ident("y")) >>),
      Call("p", <<IntLit(0)>>),                                 \* p(0)
      Call("q", <<IntLit(0)>>),                                 \* q(0)
      Write(<<Ident("y")>>) }                                   \* write y

InitLocals == InitOver(ProgramsOver(LocalsPool, MaxProgLen))

SpecLocals == InitLocals /\ [][Next]_vars

(* A body `y is v` followed by a write or a return of y.                   *)
AssignsThenReads(body) ==
    /\ Len(body) = 2
    /\ body[1].tag = "VariableAssign"
    /\ body[1].value.tag = "Integer"
    /\ body[2] \in {Write(<<Ident(body[1].name)>>), Ret(Ident(body[1].name))}

(* C25: an assignment `y is v` in a function body is seen by the later     *)
(* statements of the same body: a following `write y` writes v and a       *)
(* following `return y` returns v, whether or not a global y with another  *)
(* value was bound before the call.                                        *)
C25_BodyAssignmentVisible ==
    [][(/\ pc = "run"
        /\ IsCallOfDefined(program[i])
        /\ AssignsThenReads(functions[program[i].name].body.stmts))
        => LET body == functions[program[i].name].body.stmts
               v == body[1].value.val
           IN  /\ pc' # "panicked"
               /\ body[2].tag = "Write"
                     => WriteLines(stdout') = Append(WriteLines(stdout), ToString(v))
               /\ body[2].tag = "Return" => call_result' = v]_vars

(* Source texts of one block statement, an if statement or a function      *)
(* definition, whose closing brace follows the last statement at once,     *)
(* after a space, or on a line of its own; the if statement with or        *)
(* without an else-block laid out the same way; a write may follow.        *)
(* Each text comes with the statements it is the text of.                  *)
LayoutBodies ==
    { [text |-> <<>>, node |-> <<>>],                                      \* (empty)
      [text |-> <<"write", "2">>, node |-> <<Write(<<IntLit(2)>>)>>],     \* write 2
      [text |-> <<"write", "a">>, node |-> <<Write(<<Ident("a")>>)>>],    \* write a
      [text |-> <<"write", "2", "+", "3">>,                                \* write 2 + 3
       node |-> <<Write(<<Bin(IntLit(2), "+", IntLit(3))>>)>>] }

(* head { body } as lines, by the layout of the closing brace.             *)
BlockLines(head, body, layout) ==
    CASE layout = "tight" -> << head \o <<"{">> \o body \o <<"}">> >>
      [] layout = "spaced" -> << head \o <<"{">> \o body \o <<" ", "}">> >>
      [] layout = "broken" -> << head \o <<"{">>, body, <<"}">> >>

(* ... } else { body } continuing the last line of an if statement.        *)
ElseLines(lines, body, layout) ==
    LET n == Len(lines)
        else == BlockLines(<<"else">>, body, layout)
    IN  SubSeq(lines, 1, n - 1) \o << lines[n] \o else[1] >> \o Tail(else)

LayoutTails ==
    { [lines |-> <<>>, node |-> <<>>],
      [lines |-> << <<"write", "3">> >>, node |-> <<Write(<<IntLit(3)>>)>>] }    \* write 3

LayoutCases ==
    LET IfHead == <<"if", "a", "=", "2">>                                  \* if a = 2
        FunctionHead == <<"f", "(", ")">>                                  \* f()
        Condition == Bin(Ident("a"), "=", IntLit(2))
        BlockLayouts == {"tight", "spaced", "broken"}
    IN  { [lines |-> BlockLines(FunctionHead, b.text, l) \o t.lines,
           node |-> <<Func("f", <<>>, b.node)>> \o t.node] :
             b \in LayoutBodies, l \in BlockLayouts, t \in LayoutTails }
        \cup
        { [lines |-> BlockLines(IfHead, b.text, l) \o t.lines,
           node |-> <<ParsedIf(Condition, Block(b.node), <<>>, NullV)>> \o t.node] :
             b \in LayoutBodies, l \in BlockLayouts, t \in LayoutTails }
        \cup
        { [lines |-> ElseLines(BlockLines(IfHead, b.text, l), b.text, l) \o t.lines,
           node |-> <<ParsedIf(Condition, Block(b.node), <<>>, Block(b.node))>> \o t.node] :
             b \in LayoutBodies, l \in BlockLayouts, t \in LayoutTails }

InitLayout ==
    /\ src \in {c.lines : c \in LayoutCases}
    /\ ast = <<>>
    /\ pc = "parse"
    /\ Fresh

SpecLayout == InitLayout /\ [][NextArith]_vars

(* The statements a text of LayoutCases is the text of.                    *)
LayoutNode(lines) == (CHOOSE c \in LayoutCases : c.lines = lines).node

(* C26: the block of an if branch accepts the layouts a function body      *)
(* accepts: whitespace, line ends included, may stand between the last     *)
(* statement and the closing brace, so an if statement written over        *)
(* several lines parses like the same statement on one line.               *)
C26_IfBlockLayout ==
    /\ pc # "parse_error"
    /\ pc # "parse" => ast = LayoutNode(src)

(* Programs that fill the cache through all four of its writers: an        *)
(* assignment, writes of an identifier and of binary operations whose      *)
(* operands are rebound to zero, a number and a string, and a call with a  *)
(* return.                                                                 *)
CachePool ==
    { Assign("a", IntLit(0)),                                   \* a is 0
      Assign("a", IntLit(2)),                                   \* a is 2
      Assign("a", StrLit("x")),                                 \* a is "x"
      Write(<<Ident("a")>>),                                    \* write a
      Write(<<Bin(IntLit(6), "/", Ident("a"))>>),               \* write 6 / a
      Write(<<Bin(Ident("a"), "-", IntLit(2))>>),               \* write a - 2
      Func("d", <<Ident("x")>>,                                 \* d(x){ return x * 2 }
           << Ret(Bin(Ident("x"), "*", IntLit(2))) >>),
      Call("d", <<IntLit(3)>>) }                                \* d(3)

InitCache == InitOver(ProgramsOver(CachePool, MaxProgLen))

SpecCache == InitCache /\ [][Next]_vars

(* C27: the cache is append-only: a key it holds is never removed and the  *)
(* value stored under it never changes.                                    *)
C27_CacheAppendOnly ==
    [][\A k \in DOMAIN cache : k \in DOMAIN cache' /\ cache'[k] = cache[k]]_vars

C27_Witness ==
    /\ pc = "done"
    /\ ast = << Write(<<Ident("a")>>), Assign("a", IntLit(2)), Write(<<Ident("a")>>) >>
    /\ DOMAIN cache = {WriteKey(Ident("a")), AssignKey([name |-> "a", value |-> IntLit(2)])}
    /\ cache[WriteKey(Ident("a"))] = StrV("Identifier not found")

(* The value of a binary operation on two resolved operands: the integer   *)
(* result, null when an operand is no integer or the divisor is zero.      *)
Magnitude(n) == IF n < 0 THEN -n ELSE n

OpValue(left, op, right) ==
    IF left.tag # "Number" \/ right.tag # "Number" THEN NullV
    ELSE CASE op = "+" -> Num(left.n + right.n)
           [] op = "-" -> Num(left.n - right.n)
           [] op = "*" -> Num(left.n * right.n)
           [] op = "/" ->
                 IF right.n = 0 THEN NullV
                 ELSE LET q == Magnitude(left.n) \div Magnitude(right.n)
                      IN  Num(IF (left.n < 0) = (right.n < 0) THEN q ELSE -q)
           [] OTHER -> NullV

(* The first token of a key evaluate_binary_op writes.                     *)
BinaryHeads == {"Number(", "Null", "String(", "Object {"}

(* C28: the entry under a binary-operation key is the value of the         *)
(* operator of the key on the operands of the key, so a hit returns what   *)
(* recomputing returns; the keys of process_write, process_return and      *)
(* process_variable_assign are no binary-operation keys and hold a text,   *)
(* a number and the assigned node.                                         *)
C28_BinaryOpEntriesSound ==
    \A k \in DOMAIN cache :
        CASE k[1] \in BinaryHeads ->
                /\ Len(k) = 4
                /\ k[1] = DebugHead(k[2])
                /\ cache[k] = OpValue(k[2], k[3], k[4])
          [] k[1] = "{" -> cache[k].tag = "Str"
          [] k[1] = "Return:{" -> cache[k].tag = "Number"
          [] k[1] = "VariableAssign:{" -> cache[k] = k[2].value
          [] OTHER -> FALSE

C28_Witness ==
    /\ pc = "done"
    /\ ast = << Assign("a", IntLit(0)), Write(<<Bin(IntLit(6), "/", Ident("a"))>>),
                Write(<<Bin(Ident("a"), "-", IntLit(2))>>) >>
    /\ cache[BinaryOpKey(Num(6), "/", Num(0))] = NullV
    /\ cache[BinaryOpKey(Num(0), "-", Num(2))] = Num(-2)
    /\ WriteLines(stdout) = <<"null", "-2">>

(* Definitions of one name at top level, in both blocks of an if           *)
(* statement and inside another function's body, and a call of the name.   *)
NamedF(text) == Func("f", <<Ident("x")>>, <<Write(<<StrLit(text)>>)>>)

FunctionsPool ==
    { NamedF("one"),                                            \* f(x){write "one"}
      NamedF("two"),                                            \* f(x){write "two"}
      ParsedIf(TwoIsTwo,                                        \* if 2 = 2 {f(x){write "then"}}
               Block(<<NamedF("then")>>), <<>>,                 \* else {f(x){write "else"}}
               Block(<<NamedF("else")>>)),
      Func("g", <<Ident("x")>>, <<NamedF("inner")>>),           \* g(x){ f(x){write "inner"} }
      Call("f", <<IntLit(1)>>) }                                \* f(1)

InitFunctions == InitOver(ProgramsOver(FunctionsPool, MaxProgLen))

SpecFunctions == InitFunctions /\ [][Next]_vars

(* The Function nodes of a statement sequence in document order: a         *)
(* function before the functions of its body, the then-block of an if      *)
(* statement before its else-block.                                        *)
RECURSIVE DocOrder(_)
DocOrderOf(node) ==
    CASE node.tag = "Function" -> <<node>> \o DocOrder(node.body.stmts)
      [] node.tag = "Block" -> DocOrder(node.stmts)
      [] node.tag = "ParsedIf" ->
            DocOrder(node.then_branch.stmts)
                \o (IF node.else_branch.tag = "Block" THEN DocOrder(node.else_branch.stmts)
                    ELSE <<>>)
      [] OTHER -> <<>>

DocOrder(stmts) ==
    IF stmts = <<>> THEN <<>> ELSE DocOrderOf(Head(stmts)) \o DocOrder(Tail(stmts))

(* The table in which each name has its last definition of the sequence.   *)
RECURSIVE LastDefinitions(_, _)
LastDefinitions(defs, table) ==
    IF defs = <<>> THEN table
    ELSE LastDefinitions(Tail(defs),
                         MapInsert(table, Head(defs).name, FunctionOf(Encode(Head(defs)))))

(* C29: the function table is complete when load_from_json returns, holds  *)
(* every Function node of the document, nested ones included, is the same  *)
(* in every later state of the run, and gives each name the definition     *)
(* that comes last in document order.                                      *)
C29_FunctionTable ==
    pc \in {"start", "run", "done"}
        => functions = LastDefinitions(DocOrder(ast), EmptyMap)

(* A function that calls itself, calls of it at top level and in the       *)
(* block of an if statement, and a call whose return value is no integer.  *)
RecursionPool ==
    { Func("r", <<Ident("x")>>,                                 \* r(x){ r(1)
           << Call("r", <<IntLit(1)>>),                         \*   write x }
              Write(<<Ident("x")>>) >>),
      Call("r", <<IntLit(1)>>),                                 \* r(1)
      ParsedIf(TwoIsTwo,                                        \* if 2 = 2 {r(1) r(1)}
               Block(<<Call("r", <<IntLit(1)>>), Call("r", <<IntLit(1)>>)>>),
               <<>>, WriteElse),                                \* else {write "else"}
      Func("double", <<Ident("x")>>,                            \* double(x){ return x * 2 }
           << Ret(Bin(Ident("x"), "*", IntLit(2))) >>),
      Call("double", <<Ident("a")>>),                           \* double(a)
      Assign("a", IntLit(1)) }                                  \* a is 1

InitRecursion == InitOver(ProgramsOver(RecursionPool, MaxProgLen))

SpecRecursion == InitRecursion /\ [][Next]_vars

(* The function bodies started between two states: execute_function_body   *)
(* prints its cache key when it starts.                                    *)
BodiesStarted(old, new) ==
    Cardinality({k \in DOMAIN Appended(old, new) :
                    Appended(old, new)[k] = [kind |-> "trace", text |-> "Cash key"]})

(* The calls a top-level statement makes itself: the statement, or the     *)
(* call statements of the block an if statement selects.                   *)
DirectCalls(element) ==
    IF element.tag = "FunctionCall" THEN 1
    ELSE IF element.tag = "IfElse"
    THEN Cardinality({k \in DOMAIN SelectedBlock(element) :
                         SelectedBlock(element)[k].tag = "FunctionCall"})
    ELSE 0

(* C30: the run ends: each step of interpret visits the next top-level     *)
(* statement and moves on, so every statement is visited once in program   *)
(* order and the run is done after the last; an if statement prints one    *)
(* verdict and runs one block; no function body is started from within a   *)
(* function body, so a step starts at most as many bodies as the statement *)
(* makes calls itself.                                                     *)
C30_EveryStatementOnce ==
    [][pc = "run"
        => /\ i \in 1..Len(program)
           /\ i' = i + 1
           /\ pc' = IF i = Len(program) THEN "done" ELSE "run"
           /\ BodiesStarted(stdout, stdout') <= DirectCalls(program[i])]_vars

=============================================================================
